---------------------------- MODULE Spec2Model ----------------------------
(***************************************************************************)
(* Model of examples/hybrid-social-network-client/app.py: the event-stream *)
(* consumers (SocialApp.listen_for_events), the bot turn scheduler         *)
(* (SocialApp.run_bot_chat), the UI callbacks (SocialApp.run_ui) and the   *)
(* shared chat log / status map kept in st.session_state.                  *)
(*                                                                         *)
(* Library calls are modelled at their call boundary: a gRPC stream read   *)
(* returns an item, raises grpc.RpcError or ends; an anchorpy .rpc() call  *)
(* returns or raises; st.experimental_rerun() is the refresh notification  *)
(* sent to the UI and returns to the caller.                               *)
(***************************************************************************)
EXTENDS Integers, Sequences, FiniteSets, TLC

(* ------------------------------ bounds --------------------------------- *)
\* longest chat log explored
MaxLog == 3
\* number of scheduler turns explored
MaxTurn == 3
\* largest value of a bot's message counter drawn by DispatchInit
MaxCount == 40

(* --------------------------- program constants -------------------------- *)
\* time.sleep(5) after a gRPC error in listen_for_events
BACKOFF == 5
\* time.sleep(5) between two turns of run_bot_chat
TURN_DELAY == 5

\* the two monitored bot identities (start_all_threads)
Names == {"Alice", "Bob"}

\* profile addresses derived in SocialApp.__init__
alice_pda == "alice_pda"
bob_pda == "bob_pda"
human_user_pda == "human_user_pda"

\* the address listened on by the consumer thread of a bot
PdaOf(name) == IF name = "Alice" THEN alice_pda ELSE bob_pda

\* strings that Pubkey.from_string accepts
ValidAddr == {alice_pda, bob_pda, human_user_pda}

\* a sender_user_pda string that is not a base58 public key
BadAddr == "not-base58"

(* ------------------------------ payloads -------------------------------- *)
\* b"MSG:"
MSG_PREFIX == <<77, 83, 71, 58>>

\* b"MSG:hi"
P_hi == <<77, 83, 71, 58, 104, 105>>
\* b"MSG:a:b" (the text itself holds a colon)
P_colon == <<77, 83, 71, 58, 97, 58, 98>>
\* b"MSG:\xff" (not valid UTF-8)
P_badutf == <<77, 83, 71, 58, 255>>
\* b"MSG" (shorter than the prefix)
P_short == <<77, 83, 71>>
\* b"ST:" standing for b"STICKER:smiley_face" (Bot.use_paid_feature)
P_sticker == <<83, 84, 58>>
\* a serialized CommandConfig (Bot.simulate_file_transfer)
P_file == <<8, 1, 18>>

\* bytes.startswith
StartsWith(b, prefix) ==
    /\ Len(b) >= Len(prefix)
    /\ SubSeq(b, 1, Len(prefix)) = prefix

\* code point -> character, for the ASCII bytes used by the payloads
Chr(byte) ==
    CASE byte = 58 -> ":"
      [] byte = 71 -> "G"
      [] byte = 77 -> "M"
      [] byte = 83 -> "S"
      [] byte = 84 -> "T"
      [] byte = 97 -> "a"
      [] byte = 98 -> "b"
      [] byte = 104 -> "h"
      [] byte = 105 -> "i"
      [] OTHER -> "?"

\* bytes.decode('utf-8') succeeds (a lone byte >= 0x80 is not valid UTF-8)
Utf8Ok(b) == \A i \in 1..Len(b) : b[i] < 128

\* bytes.decode('utf-8') of a valid payload
Utf8Decode(b) == [i \in 1..Len(b) |-> Chr(b[i])]

\* index of the first ":" of s (0 when there is none)
FirstColon(s) ==
    IF \E i \in 1..Len(s) : s[i] = ":"
    THEN CHOOSE i \in 1..Len(s) : s[i] = ":" /\ \A j \in 1..(i - 1) : s[j] # ":"
    ELSE 0

\* str.split(":", 1)[1]: everything after the first colon
SplitAfterColon(s) == SubSeq(s, FirstColon(s) + 1, Len(s))

(* ------------------------------- events --------------------------------- *)
\* item.event.WhichOneof('event') values the consumer distinguishes
CommandDispatched == "user_command_dispatched"
UserBanned == "user_banned"
\* any other variant of the event oneof
OtherVariant == "user_profile_created"

\* a UserCommandDispatched event
Cmd(sender, command_id, payload) ==
    [type |-> CommandDispatched, sender_user_pda |-> sender,
     command_id |-> command_id, payload |-> payload, target_address |-> ""]

\* a UserBanned event about the profile at address pda
Ban(pda) ==
    [type |-> UserBanned, sender_user_pda |-> "",
     command_id |-> 0, payload |-> <<>>, target_address |-> pda]

\* an event of a variant the consumer has no branch for
Other(pda) ==
    [type |-> OtherVariant, sender_user_pda |-> "",
     command_id |-> 0, payload |-> <<>>, target_address |-> pda]

\* the command events delivered on the subscription of alice_pda
AliceCommands ==
    { Cmd(alice_pda, 1, P_hi),
      Cmd(human_user_pda, 3, P_colon),
      Cmd(alice_pda, 3, P_sticker),
      Cmd(BadAddr, 2, P_file) }

\* the command events delivered on the subscription of bob_pda
BobCommands ==
    { Cmd(bob_pda, 2, P_file),
      Cmd(bob_pda, 99, P_short),
      Cmd(human_user_pda, 1, P_file),
      Cmd(alice_pda, 1, P_badutf) }

\* ListenAsUser(ListenRequest(pda)): the items the gateway pushes on the
\* subscription of the profile at pda; a UserBanned event on it is about pda
ListenAsUser(pda) ==
    (IF pda = alice_pda THEN AliceCommands ELSE BobCommands)
        \cup {Ban(pda), Other(pda)}

\* no item in hand
NoItem == [type |-> "none"]

(* --------------------------- event application --------------------------- *)
\* sender_name resolution of listen_for_events
SenderName(sender_pda) ==
    IF sender_pda = alice_pda THEN "Alice"
    ELSE IF sender_pda = bob_pda THEN "Bob"
    ELSE "You"

\* f"[{sender_name}]: {message}"
ChatEntry(sender_name, message) == <<"[", sender_name, "]: ">> \o message
\* f"[{sender_name}] sent a file transfer request."
FileEntry(sender_name) == <<"[", sender_name, "] sent a file transfer request.">>
\* f"[{sender_name}] sent a paid sticker!"
StickerEntry(sender_name) == <<"[", sender_name, "] sent a paid sticker!">>
\* f"[ADMIN]: {bot_name} has been banned."
BannedEntry(bot_name) == <<"[ADMIN]: ", bot_name, " has been banned.">>
\* "[ADMIN]: Banning Alice..." / "[ADMIN]: Banning Bob..."
BanningEntry(bot_name) == <<"[ADMIN]: Banning ", bot_name, "...">>
\* f"[You] -> [{recipient}]: {message_text}"
SentEntry(recipient, message_text) == <<"[You] -> [", recipient, "]: ">> \o message_text
\* "Welcome to the Hybrid Social Network!"
WelcomeEntry == <<"Welcome to the Hybrid Social Network!">>
\* f"ERROR: On-chain setup failed: {e}"
SetupErrorEntry == <<"ERROR: On-chain setup failed: ", "e">>

\* faulty variant: list.insert(0, entry)
PrependLog(log, entry) == <<entry>> \o log

\* faulty variant: the last entry is overwritten
AppendLog_Rewrite(log, entry) ==
    IF log = <<>> THEN <<entry>> ELSE [log EXCEPT ![Len(log)] = entry]

\* list.append
AppendLog(log, entry) == Append(log, entry)

\* outcome of the body of "with self.lock": the new shared state, and whether
\* an exception left the block
Outcome(raised, log, status) == [raised |-> raised, log |-> log, status |-> status]

\* faulty variant: the command_id is tested before the MSG: prefix
ApplyCommand_IdFirst(ev, log, status) ==
    IF ev.sender_user_pda \notin ValidAddr
    THEN Outcome(TRUE, log, status)
    ELSE LET sender_name == SenderName(ev.sender_user_pda) IN
         IF ev.command_id = 2
         THEN Outcome(FALSE, AppendLog(log, FileEntry(sender_name)), status)
         ELSE IF ev.command_id = 3
         THEN Outcome(FALSE, AppendLog(log, StickerEntry(sender_name)), status)
         ELSE IF StartsWith(ev.payload, MSG_PREFIX)
         THEN IF ~Utf8Ok(ev.payload)
              THEN Outcome(TRUE, log, status)
              ELSE Outcome(FALSE,
                           AppendLog(log, ChatEntry(sender_name,
                               SplitAfterColon(Utf8Decode(ev.payload)))),
                           status)
         ELSE Outcome(FALSE, log, status)

\* faulty variant: the file-transfer notice is appended for command_id 3 too
ApplyCommand_StickerAsFile(ev, log, status) ==
    IF ev.sender_user_pda \notin ValidAddr
    THEN Outcome(TRUE, log, status)
    ELSE LET sender_name == SenderName(ev.sender_user_pda) IN
         IF StartsWith(ev.payload, MSG_PREFIX)
         THEN IF ~Utf8Ok(ev.payload)
              THEN Outcome(TRUE, log, status)
              ELSE Outcome(FALSE,
                           AppendLog(log, ChatEntry(sender_name,
                               SplitAfterColon(Utf8Decode(ev.payload)))),
                           status)
         ELSE IF ev.command_id = 2 \/ ev.command_id = 3
         THEN Outcome(FALSE, AppendLog(log, FileEntry(sender_name)), status)
         ELSE Outcome(FALSE, log, status)

\* faulty variant: the last elif is an else, so every other command_id is
\* logged as a sticker
ApplyCommand_ElseSticker(ev, log, status) ==
    IF ev.sender_user_pda \notin ValidAddr
    THEN Outcome(TRUE, log, status)
    ELSE LET sender_name == SenderName(ev.sender_user_pda) IN
         IF StartsWith(ev.payload, MSG_PREFIX)
         THEN IF ~Utf8Ok(ev.payload)
              THEN Outcome(TRUE, log, status)
              ELSE Outcome(FALSE,
                           AppendLog(log, ChatEntry(sender_name,
                               SplitAfterColon(Utf8Decode(ev.payload)))),
                           status)
         ELSE IF ev.command_id = 2
         THEN Outcome(FALSE, AppendLog(log, FileEntry(sender_name)), status)
         ELSE Outcome(FALSE, AppendLog(log, StickerEntry(sender_name)), status)

\* the user_command_dispatched branch
ApplyCommand(ev, log, status) ==
    IF ev.sender_user_pda \notin ValidAddr
    THEN Outcome(TRUE, log, status)
    ELSE LET sender_name == SenderName(ev.sender_user_pda) IN
         IF StartsWith(ev.payload, MSG_PREFIX)
         THEN IF ~Utf8Ok(ev.payload)
              THEN Outcome(TRUE, log, status)
              ELSE Outcome(FALSE,
                           AppendLog(log, ChatEntry(sender_name,
                               SplitAfterColon(Utf8Decode(ev.payload)))),
                           status)
         ELSE IF ev.command_id = 2
         THEN Outcome(FALSE, AppendLog(log, FileEntry(sender_name)), status)
         ELSE IF ev.command_id = 3
         THEN Outcome(FALSE, AppendLog(log, StickerEntry(sender_name)), status)
         ELSE Outcome(FALSE, log, status)

\* faulty variant: a second ban event puts the bot back to Online
ApplyBanned_Toggle(bot_name, log, status) ==
    Outcome(FALSE,
            AppendLog(log, BannedEntry(bot_name)),
            [status EXCEPT ![bot_name] = IF @ = "Banned" THEN "Online" ELSE "Banned"])

\* faulty variant: the whole status map is overwritten
ApplyBanned_Everyone(bot_name, log, status) ==
    Outcome(FALSE,
            AppendLog(log, BannedEntry(bot_name)),
            [n \in DOMAIN status |-> "Banned"])

\* the user_banned branch
ApplyBanned(bot_name, log, status) ==
    Outcome(FALSE,
            AppendLog(log, BannedEntry(bot_name)),
            [status EXCEPT ![bot_name] = "Banned"])

\* the body of "with self.lock" for one stream item
ApplyEvent(bot_name, ev, log, status) ==
    IF ev.type = CommandDispatched THEN ApplyCommand(ev, log, status)
    ELSE IF ev.type = UserBanned THEN ApplyBanned(bot_name, log, status)
    ELSE Outcome(FALSE, log, status)

(* ------------------------ authorization message ------------------------- *)
\* price = 1_000_000 of Bot.use_paid_feature
STICKER_PRICE == 1000000

\* values int(time.time()) returns at the dispatches explored
Clock == {1762000000}

\* faulty variant: the bytes are laid out most significant first
RECURSIVE to_bytes_big(_, _)
to_bytes_big(v, length) ==
    IF length = 0 THEN <<>>
    ELSE to_bytes_big(v \div 256, length - 1) \o <<v % 256>>

\* int.to_bytes(length, 'little') and int.to_bytes(length, 'little',
\* signed=True) of a value in range: the low byte first; \div and % round
\* towards minus infinity, which gives a negative value its two's complement
RECURSIVE to_bytes(_, _)
to_bytes(v, length) ==
    IF length = 0 THEN <<>>
    ELSE <<v % 256>> \o to_bytes(v \div 256, length - 1)

\* msg_to_sign = command_id.to_bytes(2, 'little') + price.to_bytes(8, 'little')
\*               + timestamp.to_bytes(8, 'little', signed=True)
msg_to_sign(command_id, price, timestamp) ==
    to_bytes(command_id, 2) \o to_bytes(price, 8) \o to_bytes(timestamp, 8)

\* the reading side of the layout (the on-chain verifier): an unsigned
\* little-endian field
RECURSIVE from_bytes(_)
from_bytes(b) == IF b = <<>> THEN 0 ELSE b[1] + 256 * from_bytes(Tail(b))

\* a two's complement little-endian field
from_bytes_signed(b) ==
    IF b[Len(b)] < 128 THEN from_bytes(b)
    ELSE -(from_bytes([i \in 1..Len(b) |-> 255 - b[i]])) - 1

\* the triple read back from an 18-byte authorization message
decode(b) ==
    [command_id |-> from_bytes(SubSeq(b, 1, 2)),
     price |-> from_bytes(SubSeq(b, 3, 10)),
     timestamp |-> from_bytes_signed(SubSeq(b, 11, 18))]

\* no command has been dispatched yet
NoDispatch ==
    [by |-> "none", n |-> 0, command_id |-> 0, price |-> 0, timestamp |-> 0,
     oracle_kp |-> "none", msg_to_sign |-> <<>>]

\* the arguments of user_dispatch_command and of the ed25519 pre-instruction
\* of one dispatch; by and n note the dispatching identity and its counter.
\* oracle_kp is "fresh" for Keypair() and "admin" for self.app.admin
Command(by, n, command_id, price, oracle_kp, timestamp) ==
    [by |-> by, n |-> n, command_id |-> command_id, price |-> price,
     timestamp |-> timestamp, oracle_kp |-> oracle_kp,
     msg_to_sign |-> msg_to_sign(command_id, price, timestamp)]

\* Bot.send_message
send_message(by, n, timestamp) == Command(by, n, 1, 0, "fresh", timestamp)

\* Bot.simulate_file_transfer
simulate_file_transfer(by, n, timestamp) == Command(by, n, 2, 0, "fresh", timestamp)

\* faulty variant: the priced command is signed by a new Keypair()
use_paid_feature_FreshKey(by, n, timestamp) ==
    Command(by, n, 3, STICKER_PRICE, "fresh", timestamp)

\* Bot.use_paid_feature
use_paid_feature(by, n, timestamp) ==
    Command(by, n, 3, STICKER_PRICE, "admin", timestamp)

\* the message form of run_ui, sent as the human user
ui_send_message(timestamp) == Command("You", 0, 1, 0, "fresh", timestamp)

(* -------------------------------- state ---------------------------------- *)
VARIABLES
    phase,          \* main(): "running" after setup succeeded, "degraded" after it failed
    stop_event,     \* SocialApp.stop_event
    lock,           \* holder of SocialApp.lock ("free" when nobody holds it)
    chat_log,       \* st.session_state.chat_log
    bot_status,     \* st.session_state.bot_status
    log_by,         \* history: for each chat_log entry, who appended it and how
    pc,             \* position of each listen_for_events thread
    item,           \* the stream item each listener has in hand
    timer,          \* time left of each listener's time.sleep(5)
    waited,         \* history: time since each listener's last subscription ended
    sched_pc,       \* position of the run_bot_chat thread
    turn,           \* local variable turn of run_bot_chat
    message_count,  \* Bot.message_count of bot_alice and bot_bob
    attempts,       \* history: dispatches started by run_bot_chat, per bot
    succeeded,      \* history: command dispatches confirmed by the rpc, per bot
    sched_timer,    \* time left of the scheduler's time.sleep(5)
    last_dispatch   \* history: the command built by the latest dispatch

shared == <<chat_log, bot_status, log_by>>
listeners == <<pc, item, timer, waited>>
scheduler == <<sched_pc, turn, message_count, attempts, succeeded, sched_timer>>
vars == <<phase, stop_event, lock, shared, listeners, scheduler, last_dispatch>>

\* history record of one append: the appending thread, the ordinal of the
\* append among that thread's appends, whether the thread held the lock
Stamp(by, log, held) ==
    [by |-> by,
     ord |-> Cardinality({i \in 1..Len(log) : log[i].by = by}) + 1,
     locked |-> held]

\* the history follows the chat log: one stamp per appended entry, placed as
\* the entry is placed
Record(by, old_log, new_log, held) ==
    IF new_log = old_log THEN log_by
    ELSE AppendLog(log_by, Stamp(by, log_by, held))

(* ------------------------------- main() --------------------------------- *)
\* setup succeeded: the log and the statuses are created, the threads started
InitRunning ==
    /\ phase = "running"
    /\ chat_log = <<WelcomeEntry>>
    /\ bot_status = [n \in Names |-> "Online"]
    /\ pc = [n \in Names |-> "loop"]
    /\ sched_pc = "loop"

\* setup raised: the error is logged, no thread is started
InitDegraded ==
    /\ phase = "degraded"
    /\ chat_log = <<SetupErrorEntry>>
    /\ bot_status = [n \in Names |-> "Error"]
    /\ pc = [n \in Names |-> "unstarted"]
    /\ sched_pc = "unstarted"

\* SocialApp.__init__ and the threads before their first step
InitThreads ==
    /\ stop_event = FALSE
    /\ lock = "free"
    /\ item = [n \in Names |-> NoItem]
    /\ timer = [n \in Names |-> 0]
    /\ waited = [n \in Names |-> BACKOFF]
    /\ sched_timer = 0
    /\ last_dispatch = NoDispatch

Init ==
    /\ InitRunning \/ InitDegraded
    /\ InitThreads
    /\ log_by = <<[by |-> "main", ord |-> 1, locked |-> FALSE]>>
    /\ turn = 0
    /\ message_count = [n \in Names |-> 0]
    /\ attempts = [n \in Names |-> 0]
    /\ succeeded = [n \in Names |-> 0]

\* The running program after each bot has had n dispatches confirmed (and
\* Alice one more when the next turn is Bob's), none having failed, and after
\* the ban of the bot in `banned`, if any, was applied by its listener.
\* run_bot_chat reads only turn % 2, and that is what is kept of turn here.
DispatchInit ==
    \E n \in 0..MaxCount, t \in {0, 1}, banned \in {{}, {"Alice"}, {"Bob"}} :
        /\ phase = "running"
        /\ chat_log = <<WelcomeEntry>>
                          \o [i \in 1..Cardinality(banned) |->
                                 BannedEntry(CHOOSE x \in banned : TRUE)]
        /\ log_by = <<[by |-> "main", ord |-> 1, locked |-> FALSE]>>
                        \o [i \in 1..Cardinality(banned) |->
                               [by |-> CHOOSE x \in banned : TRUE, ord |-> 1,
                                locked |-> TRUE]]
        /\ bot_status = [x \in Names |-> IF x \in banned THEN "Banned" ELSE "Online"]
        /\ pc = [x \in Names |-> "loop"]
        /\ sched_pc = "loop"
        /\ InitThreads
        /\ turn = t
        /\ message_count = [x \in Names |-> IF x = "Alice" THEN n + t ELSE n]
        /\ attempts = message_count
        /\ succeeded = message_count

(* -------------------------- listen_for_events ---------------------------- *)
\* while not self.stop_event.is_set()
Loop(c) ==
    /\ pc[c] = "loop"
    /\ pc' = [pc EXCEPT ![c] = IF stop_event THEN "done" ELSE "connect"]
    /\ UNCHANGED <<phase, stop_event, lock, shared, item, timer, waited, scheduler, last_dispatch>>

\* stream = self.gateway_client.listen_as_user(bot_pda): the call returns a
\* stream, or raises grpc.RpcError and the handler sleeps
Connect(c) ==
    /\ pc[c] = "connect"
    /\ \/ /\ pc' = [pc EXCEPT ![c] = "read"]
          /\ waited' = [waited EXCEPT ![c] = BACKOFF]
          /\ UNCHANGED timer
       \/ /\ pc' = [pc EXCEPT ![c] = "sleep"]
          /\ timer' = [timer EXCEPT ![c] = BACKOFF]
          /\ waited' = [waited EXCEPT ![c] = 0]
    /\ UNCHANGED <<phase, stop_event, lock, shared, item, scheduler, last_dispatch>>

\* for item in stream: the blocking read returns the next item
ReadItem(c, items) ==
    /\ pc[c] = "read"
    /\ \E ev \in items :
          /\ item' = [item EXCEPT ![c] = ev]
          /\ pc' = [pc EXCEPT ![c] = "item"]
    /\ UNCHANGED <<phase, stop_event, lock, shared, timer, waited, scheduler, last_dispatch>>

\* for item in stream: the read raises grpc.RpcError; except: time.sleep(5)
ReadError(c) ==
    /\ pc[c] = "read"
    /\ pc' = [pc EXCEPT ![c] = "sleep"]
    /\ timer' = [timer EXCEPT ![c] = BACKOFF]
    /\ waited' = [waited EXCEPT ![c] = 0]
    /\ UNCHANGED <<phase, stop_event, lock, shared, item, scheduler, last_dispatch>>

\* for item in stream: the server completed the stream, the for loop ends and
\* control returns to the while test
ReadEnd(c) ==
    /\ pc[c] = "read"
    /\ pc' = [pc EXCEPT ![c] = "loop"]
    /\ waited' = [waited EXCEPT ![c] = 0]
    /\ UNCHANGED <<phase, stop_event, lock, shared, item, timer, scheduler, last_dispatch>>

\* faulty variant: the stop flag is not tested after a read
CheckStop_NoBreak(c) ==
    /\ pc[c] = "item"
    /\ pc' = [pc EXCEPT ![c] = "lock"]
    /\ UNCHANGED <<item, waited>>
    /\ UNCHANGED <<phase, stop_event, lock, shared, timer, scheduler, last_dispatch>>

\* if self.stop_event.is_set(): break; else go on to "with self.lock"
CheckStop(c) ==
    /\ pc[c] = "item"
    /\ IF stop_event
       THEN /\ pc' = [pc EXCEPT ![c] = "loop"]
            /\ item' = [item EXCEPT ![c] = NoItem]
            /\ waited' = [waited EXCEPT ![c] = 0]
       ELSE /\ pc' = [pc EXCEPT ![c] = "lock"]
            /\ UNCHANGED <<item, waited>>
    /\ UNCHANGED <<phase, stop_event, lock, shared, timer, scheduler, last_dispatch>>

\* with self.lock: (acquire)
Acquire(c) ==
    /\ pc[c] = "lock"
    /\ lock = "free"
    /\ lock' = c
    /\ pc' = [pc EXCEPT ![c] = "crit"]
    /\ UNCHANGED <<phase, stop_event, shared, item, timer, waited, scheduler, last_dispatch>>

\* applying the item in hand raises
Raises(c) == ApplyEvent(c, item[c], chat_log, bot_status).raised

\* faulty variant: acquire() with a release() that an exception skips, in
\* place of the with statement
Apply_NoReleaseOnRaise(c) ==
    /\ pc[c] = "crit"
    /\ LET out == ApplyEvent(c, item[c], chat_log, bot_status) IN
          /\ Len(out.log) <= MaxLog
          /\ chat_log' = out.log
          /\ bot_status' = out.status
          /\ log_by' = Record(c, chat_log, out.log, lock = c)
          /\ pc' = [pc EXCEPT ![c] = IF out.raised THEN "dead" ELSE "rerun"]
          /\ lock' = IF out.raised THEN lock ELSE "free"
    /\ item' = [item EXCEPT ![c] = IF Raises(c) THEN NoItem ELSE @]
    /\ UNCHANGED <<phase, stop_event, timer, waited, scheduler, last_dispatch>>

\* faulty variant: st.experimental_rerun() is called inside the with block,
\* the lock still held
Apply_RerunInsideLock(c) ==
    /\ pc[c] = "crit"
    /\ LET out == ApplyEvent(c, item[c], chat_log, bot_status) IN
          /\ Len(out.log) <= MaxLog
          /\ chat_log' = out.log
          /\ bot_status' = out.status
          /\ log_by' = Record(c, chat_log, out.log, lock = c)
          /\ pc' = [pc EXCEPT ![c] = IF out.raised THEN "dead" ELSE "rerun"]
          /\ lock' = IF out.raised THEN "free" ELSE lock
    /\ item' = [item EXCEPT ![c] = IF Raises(c) THEN NoItem ELSE @]
    /\ UNCHANGED <<phase, stop_event, timer, waited, scheduler, last_dispatch>>

\* the body of "with self.lock" and the release at its exit; an exception
\* that is not a grpc.RpcError leaves listen_for_events
Apply(c) ==
    /\ pc[c] = "crit"
    /\ LET out == ApplyEvent(c, item[c], chat_log, bot_status) IN
          /\ Len(out.log) <= MaxLog
          /\ chat_log' = out.log
          /\ bot_status' = out.status
          /\ log_by' = Record(c, chat_log, out.log, lock = c)
          /\ pc' = [pc EXCEPT ![c] = IF out.raised THEN "dead" ELSE "rerun"]
    /\ lock' = "free"
    /\ item' = [item EXCEPT ![c] = IF Raises(c) THEN NoItem ELSE @]
    /\ UNCHANGED <<phase, stop_event, timer, waited, scheduler, last_dispatch>>

\* st.experimental_rerun(), then the next iteration of the for loop
Rerun(c) ==
    /\ pc[c] = "rerun"
    /\ pc' = [pc EXCEPT ![c] = "read"]
    /\ item' = [item EXCEPT ![c] = NoItem]
    /\ UNCHANGED <<phase, stop_event, lock, shared, timer, waited, scheduler, last_dispatch>>

\* time.sleep(5) returns
Wake(c) ==
    /\ pc[c] = "sleep"
    /\ timer[c] = 0
    /\ pc' = [pc EXCEPT ![c] = "loop"]
    /\ UNCHANGED <<phase, stop_event, lock, shared, item, timer, waited, scheduler, last_dispatch>>

(* ------------------------------ run_bot_chat ----------------------------- *)
\* sender, receiver = (alice, bob) if turn % 2 == 0 else (bob, alice)
Sender(t) == IF t % 2 = 0 THEN "Alice" ELSE "Bob"

\* faulty variant: the file transfer is selected by n % 2
SelectAction_Mod2(n) ==
    IF n > 0 /\ n % 8 = 0 THEN 3
    ELSE IF n > 0 /\ n % 2 = 0 THEN 2
    ELSE 1

\* faulty variant: the file-transfer test comes before the sticker test
SelectAction_FileFirst(n) ==
    IF n > 0 /\ n % 5 = 0 THEN 2
    ELSE IF n > 0 /\ n % 8 = 0 THEN 3
    ELSE 1

\* run_action: the command the sender dispatches when its counter is n
SelectAction(n) ==
    IF n > 0 /\ n % 8 = 0 THEN 3
    ELSE IF n > 0 /\ n % 5 = 0 THEN 2
    ELSE 1

\* run_action: the Bot method called for that command, with what it builds
run_action(by, n, timestamp) ==
    IF SelectAction(n) = 3 THEN use_paid_feature(by, n, timestamp)
    ELSE IF SelectAction(n) = 2 THEN simulate_file_transfer(by, n, timestamp)
    ELSE send_message(by, n, timestamp)

\* ways a dispatch ends: the rpc is confirmed ("ok"), or preparing, sending or
\* confirming it raises ("fail"); simulate_file_transfer can also raise in a
\* log_action call made after the counter was incremented ("late_fail")
DispatchOutcomes(command_id) ==
    IF command_id = 2 THEN {"ok", "fail", "late_fail"} ELSE {"ok", "fail"}

\* faulty variant: the status of the receiver is tested instead of the sender's
SchedLoop_ReceiverStatus ==
    /\ sched_pc = "loop"
    /\ turn < MaxTurn
    /\ IF stop_event
       THEN /\ sched_pc' = "done"
            /\ UNCHANGED <<turn, sched_timer>>
       ELSE IF bot_status[Sender(turn + 1)] = "Banned"
       THEN /\ turn' = turn + 1
            /\ sched_timer' = TURN_DELAY
            /\ sched_pc' = "sleep"
       ELSE /\ sched_pc' = "action"
            /\ UNCHANGED <<turn, sched_timer>>
    /\ UNCHANGED <<phase, stop_event, lock, shared, listeners, message_count, attempts,
                   succeeded, last_dispatch>>

\* while not self.stop_event.is_set(), and the status check that skips the
\* turn of a banned sender
SchedLoop ==
    /\ sched_pc = "loop"
    /\ turn < MaxTurn
    /\ IF stop_event
       THEN /\ sched_pc' = "done"
            /\ UNCHANGED <<turn, sched_timer>>
       ELSE IF bot_status[Sender(turn)] = "Banned"
       THEN /\ turn' = turn + 1
            /\ sched_timer' = TURN_DELAY
            /\ sched_pc' = "sleep"
       ELSE /\ sched_pc' = "action"
            /\ UNCHANGED <<turn, sched_timer>>
    /\ UNCHANGED <<phase, stop_event, lock, shared, listeners, message_count, attempts,
                   succeeded, last_dispatch>>

\* faulty variant: self.message_count += 1 comes before the rpc call
SchedAction_CountsFailures ==
    /\ sched_pc = "action"
    /\ LET sender == Sender(turn) IN
       \E outcome \in DispatchOutcomes(SelectAction(message_count[sender])),
          timestamp \in Clock :
          /\ attempts' = [attempts EXCEPT ![sender] = @ + 1]
          /\ last_dispatch' = run_action(sender, message_count[sender], timestamp)
          /\ succeeded' = [succeeded EXCEPT ![sender] =
                               IF outcome = "fail" THEN @ ELSE @ + 1]
          /\ message_count' = [message_count EXCEPT ![sender] = @ + 1]
          /\ IF outcome = "ok"
             THEN /\ turn' = turn + 1
                  /\ sched_timer' = TURN_DELAY
                  /\ sched_pc' = "sleep"
             ELSE /\ sched_pc' = "dead"
                  /\ UNCHANGED <<turn, sched_timer>>
    /\ UNCHANGED <<phase, stop_event, lock, shared, listeners>>

\* asyncio.run(run_action()); turn += 1; time.sleep(5). The Bot method builds
\* its command and awaits the rpc; self.message_count += 1 follows the rpc
\* that was confirmed. An exception of the dispatch is not caught in
\* run_bot_chat and ends the thread
SchedAction ==
    /\ sched_pc = "action"
    /\ LET sender == Sender(turn) IN
       \E outcome \in DispatchOutcomes(SelectAction(message_count[sender])),
          timestamp \in Clock :
          /\ attempts' = [attempts EXCEPT ![sender] = @ + 1]
          /\ last_dispatch' = run_action(sender, message_count[sender], timestamp)
          /\ succeeded' = [succeeded EXCEPT ![sender] =
                               IF outcome = "fail" THEN @ ELSE @ + 1]
          /\ message_count' = [message_count EXCEPT ![sender] =
                                   IF outcome = "fail" THEN @ ELSE @ + 1]
          /\ IF outcome = "ok"
             THEN /\ turn' = turn + 1
                  /\ sched_timer' = TURN_DELAY
                  /\ sched_pc' = "sleep"
             ELSE /\ sched_pc' = "dead"
                  /\ UNCHANGED <<turn, sched_timer>>
    /\ UNCHANGED <<phase, stop_event, lock, shared, listeners>>

\* time.sleep(5) returns
SchedWake ==
    /\ sched_pc = "sleep"
    /\ sched_timer = 0
    /\ sched_pc' = "loop"
    /\ UNCHANGED <<phase, stop_event, lock, shared, listeners, turn, message_count,
                   attempts, succeeded, sched_timer, last_dispatch>>

(* --------------------------------- run_ui -------------------------------- *)
\* texts typed into the message form
Texts == {<<>>, <<"h", "i">>}

\* faulty variant: the button handler marks the bot as banned itself
UiBan_SetsStatus(name) ==
    /\ Len(chat_log) < MaxLog
    /\ chat_log' = AppendLog(chat_log, BanningEntry(name))
    /\ log_by' = Record("ui", chat_log, chat_log', lock = "ui")
    /\ bot_status' = [bot_status EXCEPT ![name] = "Banned"]
    /\ UNCHANGED <<phase, stop_event, lock, listeners, scheduler, last_dispatch>>

\* if st.button("Ban <name>"): the notice is appended, then admin_ban_user is
\* sent; the rpc returns or raises and changes nothing here either way
UiBan(name) ==
    /\ Len(chat_log) < MaxLog
    /\ chat_log' = AppendLog(chat_log, BanningEntry(name))
    /\ log_by' = Record("ui", chat_log, chat_log', lock = "ui")
    /\ UNCHANGED <<phase, stop_event, lock, bot_status, listeners, scheduler, last_dispatch>>

\* if st.form_submit_button('Send Message') and message_text: the entry is
\* appended, then the command is built and dispatched
UiSend(recipient, message_text) ==
    /\ Len(chat_log) < MaxLog
    /\ chat_log' = IF message_text = <<>> THEN chat_log
                   ELSE AppendLog(chat_log, SentEntry(recipient, message_text))
    /\ log_by' = Record("ui", chat_log, chat_log', lock = "ui")
    /\ \E timestamp \in Clock :
          last_dispatch' = IF message_text = <<>> THEN last_dispatch
                           ELSE ui_send_message(timestamp)
    /\ UNCHANGED <<phase, stop_event, lock, bot_status, listeners, scheduler>>

(* ------------------------------ environment ------------------------------ *)
\* one unit of time passes for every sleeping thread
Tick ==
    /\ \/ sched_timer > 0
       \/ \E c \in Names : timer[c] > 0
       \/ \E c \in Names : waited[c] < BACKOFF
    /\ timer' = [c \in Names |-> IF timer[c] > 0 THEN timer[c] - 1 ELSE 0]
    /\ sched_timer' = IF sched_timer > 0 THEN sched_timer - 1 ELSE 0
    /\ waited' = [c \in Names |-> IF waited[c] < BACKOFF THEN waited[c] + 1 ELSE BACKOFF]
    /\ UNCHANGED <<phase, stop_event, lock, shared, pc, item, sched_pc, turn,
                   message_count, attempts, succeeded, last_dispatch>>

\* the stop signal: stop_event.set()
SetStop ==
    /\ ~stop_event
    /\ stop_event' = TRUE
    /\ UNCHANGED <<phase, lock, shared, listeners, scheduler, last_dispatch>>

(* ----------------------------- specifications ---------------------------- *)
\* one listen_for_events thread, reading from the given items
Listener(c, items) ==
    \/ Loop(c)
    \/ Connect(c)
    \/ ReadItem(c, items)
    \/ ReadError(c)
    \/ ReadEnd(c)
    \/ CheckStop(c)
    \/ Acquire(c)
    \/ Apply(c)
    \/ Rerun(c)
    \/ Wake(c)

\* the script thread running run_ui
Ui ==
    \/ \E name \in Names : UiBan(name)
    \/ \E recipient \in Names, message_text \in Texts : UiSend(recipient, message_text)

\* the run_bot_chat thread
Scheduler ==
    \/ SchedLoop
    \/ SchedAction
    \/ SchedWake

\* The listeners, the UI callbacks and the passing of time. No code of the
\* program sets stop_event, so it stays clear. run_bot_chat writes neither the
\* shared state nor the lock, so its steps are left to SchedSpec.
Next ==
    \/ \E c \in Names : Listener(c, ListenAsUser(PdaOf(c)))
    \/ Ui
    \/ Tick

Spec == Init /\ [][Next]_vars

\* The scheduler next to listeners that receive ban events (the only events
\* that change what the scheduler reads).
SchedNext ==
    \/ Scheduler
    \/ \E c \in Names : Listener(c, {Ban(PdaOf(c))})
    \/ Tick

SchedSpec == Init /\ [][SchedNext]_vars

\* The dispatch paths: the scheduler's turns and the UI callbacks, started
\* from the states of DispatchInit.
DispatchNext ==
    \/ Scheduler
    \/ Ui
    \/ Tick

DispatchSpec == DispatchInit /\ [][DispatchNext]_vars

\* Every component next to the others: the scheduler, the UI callbacks and
\* Bob's listener on its whole sample of events. Alice's listener, which
\* takes the same steps on her stream, has not run yet; the interleavings of
\* the two listeners are those of Spec.
FrameNext ==
    \/ Listener("Bob", ListenAsUser(bob_pda))
    \/ Scheduler
    \/ Ui
    \/ Tick

FrameSpec == Init /\ [][FrameNext]_vars

\* The listeners with a stop signal that is raised at any moment by the
\* environment (no code of the program sets stop_event).
StopNext ==
    \/ \E c \in Names : Listener(c, ListenAsUser(PdaOf(c)))
    \/ Tick
    \/ SetStop

StopSpec == Init /\ [][StopNext]_vars

\* The listeners alone, with the scheduling the lock protocol relies on: a
\* thread inside "with self.lock" runs on to the end of the block (the body
\* makes no blocking call), and threading.Lock, once released, is obtained
\* by a thread that keeps waiting in acquire().
LockNext ==
    \/ \E c \in Names : Listener(c, ListenAsUser(PdaOf(c)))
    \/ Tick

LockSpec ==
    /\ Init
    /\ [][LockNext]_vars
    /\ \A c \in Names : WF_vars(Apply(c)) /\ SF_vars(Acquire(c))

\* values of the three fields of an authorization message, each within the
\* range of its field
CommandIds == {0, 1, 2, 3, 255, 256, 65535}
Prices == {0, 1, 255, 256, 1000000, 2147483647}
Timestamps == {-2147483647, -256, -1, 0, 1, 1762000000, 2147483647}

\* a caller holding command_id, price and timestamp, about to build
\* msg_to_sign
CodecInit ==
    /\ InitRunning
    /\ stop_event = FALSE
    /\ lock = "free"
    /\ item = [n \in Names |-> NoItem]
    /\ timer = [n \in Names |-> 0]
    /\ waited = [n \in Names |-> BACKOFF]
    /\ sched_timer = 0
    /\ log_by = <<[by |-> "main", ord |-> 1, locked |-> FALSE]>>
    /\ turn = 0
    /\ message_count = [n \in Names |-> 0]
    /\ attempts = [n \in Names |-> 0]
    /\ succeeded = [n \in Names |-> 0]
    /\ \E command_id \in CommandIds, price \in Prices, timestamp \in Timestamps :
          last_dispatch = [by |-> "caller", n |-> 0, command_id |-> command_id,
                           price |-> price, timestamp |-> timestamp,
                           oracle_kp |-> "fresh", msg_to_sign |-> <<>>]

\* msg_to_sign = command_id.to_bytes(2, 'little') + ... is evaluated
BuildMessage ==
    /\ last_dispatch.by = "caller"
    /\ last_dispatch.msg_to_sign = <<>>
    /\ last_dispatch' = [last_dispatch EXCEPT !.msg_to_sign =
                             msg_to_sign(last_dispatch.command_id,
                                         last_dispatch.price,
                                         last_dispatch.timestamp)]
    /\ UNCHANGED <<phase, stop_event, lock, shared, listeners, scheduler>>

CodecNext == BuildMessage

CodecSpec == CodecInit /\ [][CodecNext]_vars

(* ------------------------------- properties ------------------------------ *)
\* a listener thread has ended
Terminated(c) == pc[c] \in {"dead", "done"}

\* C1: with no stop signal set, no EventStreamConsumer terminates, whatever
\* way a subscription or the processing of a stream item fails.
C1_NeverFatal == stop_event = FALSE => \A c \in Names : ~Terminated(c)

\* C2: a subscription attempt that follows the end of a subscription (stream
\* error or normal termination) is made only after the full backoff of 5 time
\* units has elapsed since that end.
C2_BackoffBeforeResubscribe ==
    \A c \in Names : pc[c] = "connect" => waited[c] >= BACKOFF

\* C3: while the listener threads run, every append to the chat log and every
\* write to the status map, by a listener or by a UI action, is made by a
\* thread that holds the shared lock.
C3_MutationUnderLock ==
    phase = "running" =>
        \A i \in 1..Len(log_by) : log_by[i].by # "main" => log_by[i].locked

\* C4: a failed dispatch does not stop the TurnScheduler: with no stop signal
\* set, run_bot_chat is never ended by a failure of a bot turn.
C4_SchedulerSurvivesFailure == stop_event = FALSE => sched_pc # "dead"

\* the step in which listener c leaves the body of "with self.lock"
Applies(c) == pc[c] = "crit" /\ pc'[c] # "crit"

\* C5: applying a UserBanned event whose target is identity X sets status[X]
\* to Banned, changes no other status, and appends exactly one admin notice
\* naming X.
C5_BanSetsTargetStatus ==
    [][\A c \in Names :
          (Applies(c) /\ item[c].type = "user_banned") =>
              LET X == CHOOSE n \in Names : PdaOf(n) = item[c].target_address IN
                 /\ bot_status'[X] = "Banned"
                 /\ \A n \in Names \ {X} : bot_status'[n] = bot_status[n]
                 /\ chat_log' = Append(chat_log, <<"[ADMIN]: ", X, " has been banned.">>)
      ]_vars

\* a ban of Bob was applied and Alice's status was left alone
C5_Witness ==
    /\ bot_status["Bob"] = "Banned"
    /\ bot_status["Alice"] = "Online"
    /\ chat_log[Len(chat_log)] = <<"[ADMIN]: ", "Bob", " has been banned.">>

\* C6: a TurnScheduler turn of identity X that starts while status[X] is
\* Banned is skipped: no dispatch is started, the counters and the shared
\* state are unchanged, and the turn number advances so that the next turn is
\* the other identity's.
C6_BannedTurnSkipped ==
    [][LET X == IF turn % 2 = 0 THEN "Alice" ELSE "Bob" IN
       (sched_pc = "loop" /\ sched_pc' # "loop" /\ ~stop_event
            /\ bot_status[X] = "Banned") =>
          /\ sched_pc' = "sleep"
          /\ attempts' = attempts
          /\ message_count' = message_count
          /\ chat_log' = chat_log /\ bot_status' = bot_status
          /\ turn' = turn + 1
          /\ (IF turn' % 2 = 0 THEN "Alice" ELSE "Bob") # X
      ]_vars

\* Alice was banned before her first turn, and that turn was skipped
C6_Witness ==
    /\ bot_status["Alice"] = "Banned"
    /\ turn = 1
    /\ sched_pc = "sleep"
    /\ attempts["Alice"] = 0
    /\ message_count["Alice"] = 0

\* C7: the log entries produced by the events of one subscription stand in
\* the chat log in the order the events were delivered (a listener holds one
\* item at a time, so the n-th entry it produces comes from an earlier event
\* than the (n+1)-th), under every interleaving with the other listener and
\* the UI.
C7_StreamOrder ==
    /\ Len(log_by) = Len(chat_log)
    /\ \A i, j \in 1..Len(log_by) :
          (i < j /\ log_by[i].by \in Names /\ log_by[i].by = log_by[j].by)
              => log_by[i].ord < log_by[j].ord

\* two different events of Alice's subscription have each produced an entry
C7_Witness ==
    /\ Len(log_by) = 3
    /\ log_by[2].by = "Alice" /\ log_by[3].by = "Alice"
    /\ chat_log[2] # chat_log[3]

\* a command event whose sender address parses and whose payload, when it is
\* a MSG: payload, decodes as text (the other command events are malformed)
WellFormed(ev) ==
    /\ ev.type = "user_command_dispatched"
    /\ ev.sender_user_pda \in {alice_pda, bob_pda, human_user_pda}
    /\ (StartsWith(ev.payload, <<77, 83, 71, 58>>)
            => \A i \in 1..Len(ev.payload) : ev.payload[i] < 128)

\* the name shown for a sender address: the known identity at that address,
\* or "You"
ShownName(addr) ==
    IF addr = alice_pda THEN "Alice" ELSE IF addr = bob_pda THEN "Bob" ELSE "You"

\* C8: a well-formed CommandDispatched event whose payload begins with MSG:
\* appends exactly the entry "[<sender-name>]: <remainder-after-prefix>",
\* whatever its command_id, and leaves the status map unchanged.
C8_MsgAppendsChatEntry ==
    [][\A c \in Names :
          (Applies(c) /\ WellFormed(item[c])
               /\ StartsWith(item[c].payload, <<77, 83, 71, 58>>)) =>
              LET p == item[c].payload
                  remainder == [i \in 1..(Len(p) - 4) |-> Chr(p[i + 4])]
              IN /\ chat_log' = Append(chat_log,
                        <<"[", ShownName(item[c].sender_user_pda), "]: ">> \o remainder)
                 /\ bot_status' = bot_status
      ]_vars

\* the MSG: event with command_id 3 from an unknown sender produced "[You]: a:b"
C8_Witness ==
    /\ pc["Alice"] = "rerun"
    /\ item["Alice"] = Cmd(human_user_pda, 3, P_colon)
    /\ chat_log[Len(chat_log)] = <<"[", "You", "]: ", "a", ":", "b">>

\* C9: a well-formed CommandDispatched event whose payload does not begin
\* with MSG: appends exactly one file-transfer notice naming the sender when
\* command_id = 2 and exactly one paid-sticker notice naming the sender when
\* command_id = 3; and applying any event appends at most one entry.
C9_NoticePerCommandId ==
    [][\A c \in Names :
          Applies(c) =>
              /\ Len(chat_log') <= Len(chat_log) + 1
              /\ SubSeq(chat_log', 1, Len(chat_log)) = chat_log
              /\ (WellFormed(item[c]) /\ ~StartsWith(item[c].payload, <<77, 83, 71, 58>>)) =>
                    LET name == ShownName(item[c].sender_user_pda) IN
                       /\ item[c].command_id = 2 =>
                             chat_log' = Append(chat_log,
                                 <<"[", name, "] sent a file transfer request.">>)
                       /\ item[c].command_id = 3 =>
                             chat_log' = Append(chat_log,
                                 <<"[", name, "] sent a paid sticker!">>)
      ]_vars

\* both notices have been appended, one by each listener
C9_Witness ==
    /\ Len(chat_log) = 3
    /\ \E i \in 2..3 : chat_log[i] = <<"[", "Bob", "] sent a file transfer request.">>
    /\ \E i \in 2..3 : chat_log[i] = <<"[", "Alice", "] sent a paid sticker!">>

\* C10: a well-formed CommandDispatched event with a command_id other than 2
\* or 3 and a payload that does not begin with MSG: is a no-op: the chat log
\* and the status map are unchanged, no error ends the listener, and the
\* listener goes on to read the next item of the same stream.
C10_UnknownCommandIsNoOp ==
    [][\A c \in Names :
          /\ (Applies(c) /\ WellFormed(item[c])
                 /\ ~StartsWith(item[c].payload, <<77, 83, 71, 58>>)
                 /\ item[c].command_id \notin {2, 3}) =>
                /\ chat_log' = chat_log
                /\ bot_status' = bot_status
                /\ pc'[c] = "rerun"
          /\ (pc[c] = "rerun" /\ pc'[c] # "rerun") => pc'[c] = "read"
      ]_vars

\* Bob's listener has applied the command_id 1 event without MSG: prefix: it
\* is still in its for loop and nothing was logged
C10_Witness ==
    /\ pc["Bob"] = "rerun"
    /\ item["Bob"] = Cmd(human_user_pda, 1, P_file)
    /\ chat_log = <<WelcomeEntry>>
    /\ bot_status = [n \in Names |-> "Online"]

\* an event the classification has no rule for: a command event that is not
\* well-formed, or an event of a variant other than the two handled
Malformed(ev) ==
    \/ ev.type = "user_command_dispatched" /\ ~WellFormed(ev)
    \/ ev.type \notin {"user_command_dispatched", "user_banned", "none"}

\* C11: applying a malformed event (sender address that does not parse, MSG:
\* payload that does not decode as text, or a variant that is neither
\* CommandDispatched nor UserBanned) leaves the chat log and the status map
\* unchanged and does not end the listener, which goes on with its stream.
C11_MalformedIgnored ==
    [][\A c \in Names :
          (Applies(c) /\ Malformed(item[c])) =>
              /\ chat_log' = chat_log
              /\ bot_status' = bot_status
              /\ pc'[c] = "rerun"
      ]_vars

\* C12 as stated: the scheduler selects command_id 1 with price 0 at n = 0,
\* command_id 3 with price 1,000,000 at n = 8, and command_id 2 at n = 2, 4
\* and 6.
C12_EvenCountsSelectFile ==
    last_dispatch.by \in {"Alice", "Bob"} =>
        /\ last_dispatch.n = 0 =>
              last_dispatch.command_id = 1 /\ last_dispatch.price = 0
        /\ last_dispatch.n = 8 =>
              last_dispatch.command_id = 3 /\ last_dispatch.price = 1000000
        /\ last_dispatch.n \in {2, 4, 6} => last_dispatch.command_id = 2

\* C12, amended: the scheduler selects command_id 1 with price 0 at n = 0 and
\* command_id 3 with price 1,000,000 at n = 8; of the values in between only
\* n = 5 selects command_id 2, and n = 1, 2, 3, 4, 6, 7 select command_id 1.
C12_SelectionUpToEight ==
    last_dispatch.by \in {"Alice", "Bob"} =>
        /\ last_dispatch.n = 0 =>
              last_dispatch.command_id = 1 /\ last_dispatch.price = 0
        /\ last_dispatch.n = 8 =>
              last_dispatch.command_id = 3 /\ last_dispatch.price = 1000000
        /\ last_dispatch.n = 5 => last_dispatch.command_id = 2
        /\ last_dispatch.n \in {1, 2, 3, 4, 6, 7} => last_dispatch.command_id = 1

\* Bob's dispatch at n = 5 was a file transfer and was confirmed
C12_Witness ==
    /\ last_dispatch.by = "Bob"
    /\ last_dispatch.n = 5
    /\ last_dispatch.command_id = 2
    /\ message_count["Bob"] = 6
    /\ sched_pc = "sleep"

\* C13: a bot's dispatch is the priced sticker command (command_id 3, price
\* 1,000,000) exactly when its counter n is positive and divisible by 8,
\* also when n is divisible by the file-transfer modulus as well; a dispatch
\* with command_id 1 or 2 carries price 0.
C13_StickerIffMultipleOfEight ==
    last_dispatch.by \in {"Alice", "Bob"} =>
        /\ (last_dispatch.command_id = 3 /\ last_dispatch.price = 1000000)
              <=> (last_dispatch.n > 0 /\ last_dispatch.n % 8 = 0)
        /\ last_dispatch.command_id \in {1, 2, 3}
        /\ last_dispatch.command_id \in {1, 2} => last_dispatch.price = 0

\* at n = 40, a multiple of 8 and of 5, Alice dispatched the priced sticker
C13_Witness ==
    /\ last_dispatch.by = "Alice"
    /\ last_dispatch.n = 40
    /\ last_dispatch.command_id = 3
    /\ last_dispatch.price = 1000000

\* C14: in every state a bot's message counter equals the number of its
\* command dispatches that were confirmed: a failed dispatch and a skipped
\* turn leave it unchanged, a confirmed dispatch adds exactly 1.
C14_CounterCountsSuccesses ==
    \A X \in Names :
        /\ message_count[X] = succeeded[X]
        /\ message_count[X] <= attempts[X]

\* Alice's file transfer at n = 5 failed before its rpc was confirmed: the
\* attempt is counted, her counter still reads 5
C14_Witness ==
    /\ sched_pc = "dead"
    /\ last_dispatch.by = "Alice"
    /\ last_dispatch.command_id = 2
    /\ attempts["Alice"] = 6
    /\ message_count["Alice"] = 5

\* C15: whatever path built it (send_message, simulate_file_transfer,
\* use_paid_feature or the UI form), a dispatched command with a non-zero
\* price is authorized by the admin's registered key, and a command
\* authorized by a freshly generated key has price 0.
C15_PricedSignedByOracle ==
    last_dispatch.by \in {"Alice", "Bob", "You"} =>
        /\ last_dispatch.oracle_kp \in {"admin", "fresh"}
        /\ last_dispatch.price # 0 => last_dispatch.oracle_kp = "admin"
        /\ last_dispatch.oracle_kp = "fresh" => last_dispatch.price = 0

\* the priced sticker was dispatched with the admin key as oracle key
C15_Witness ==
    /\ last_dispatch.by = "Bob"
    /\ last_dispatch.command_id = 3
    /\ last_dispatch.price = 1000000
    /\ last_dispatch.oracle_kp = "admin"

\* C16: for a command_id below 2^16 and a price and a timestamp of the
\* sample, the message is 18 bytes long; bytes 1-2 are command_id, bytes 3-10
\* price and bytes 11-18 timestamp, least significant byte first, a negative
\* timestamp in two's complement; reading the three fields back gives the
\* triple; and no other triple of the sample gives the same bytes.
C16_EncodingLayout ==
    (last_dispatch.by = "caller" /\ last_dispatch.msg_to_sign # <<>>) =>
        LET b == last_dispatch.msg_to_sign
            c == last_dispatch.command_id
            p == last_dispatch.price
            t == last_dispatch.timestamp
            W == <<1, 256, 65536, 16777216>>
        IN /\ Len(b) = 18
           /\ \A i \in 1..18 : b[i] \in 0..255
           /\ b[1] = c % 256 /\ b[2] = c \div 256
           /\ \A i \in 1..4 : b[2 + i] = (p \div W[i]) % 256
           /\ \A i \in 5..8 : b[2 + i] = 0
           /\ \A i \in 1..4 : b[10 + i] = (t \div W[i]) % 256
           /\ \A i \in 5..8 : b[10 + i] = IF t < 0 THEN 255 ELSE 0
           /\ decode(b) = [command_id |-> c, price |-> p, timestamp |-> t]
           /\ \A c2 \in CommandIds, p2 \in Prices, t2 \in Timestamps :
                 msg_to_sign(c2, p2, t2) = b => (c2 = c /\ p2 = p /\ t2 = t)

\* (3, 1000000, -1) was encoded
C16_Witness ==
    /\ last_dispatch.by = "caller"
    /\ last_dispatch.command_id = 3
    /\ last_dispatch.price = 1000000
    /\ last_dispatch.timestamp = -1
    /\ last_dispatch.msg_to_sign =
          <<3, 0, 64, 66, 15, 0, 0, 0, 0, 0, 255, 255, 255, 255, 255, 255, 255, 255>>

\* C17: every status is Online, Banned or Error, and the only step that
\* changes the status map is a listener applying a UserBanned event, which
\* sets one status to Banned: no step of the scheduler, no other event, no
\* reconnect or backoff step and no UI action (the Ban button included)
\* changes it. (The Error statuses are those main() sets when setup fails.)
C17_StatusFrame ==
    [][/\ \A n \in Names : /\ bot_status[n] \in {"Online", "Banned", "Error"}
                           /\ bot_status'[n] \in {"Online", "Banned", "Error"}
       /\ bot_status' # bot_status =>
             \E c \in Names :
                /\ Applies(c)
                /\ item[c].type = "user_banned"
                /\ bot_status'[c] = "Banned"
                /\ \A n \in Names \ {c} : bot_status'[n] = bot_status[n]
      ]_vars

\* the Ban button was pressed for Alice and her status is still Online, after
\* the scheduler dispatched for her; Bob's status was set by his ban event
C17_Witness ==
    /\ \E i \in 1..Len(chat_log) : chat_log[i] = <<"[ADMIN]: Banning ", "Alice", "...">>
    /\ bot_status["Alice"] = "Online"
    /\ bot_status["Bob"] = "Banned"
    /\ attempts["Alice"] = 1

\* C18: in every step the chat log before the step is a prefix of the chat
\* log after it: entries are only added at the end, never removed, moved or
\* rewritten.
C18_AppendOnly ==
    [][/\ Len(chat_log') >= Len(chat_log)
       /\ \A i \in 1..Len(chat_log) : chat_log'[i] = chat_log[i]
      ]_vars

\* the log holds the welcome line, then an entry of the UI, then an entry of
\* a listener
C18_Witness ==
    /\ Len(chat_log) = 3
    /\ chat_log[1] = <<"Welcome to the Hybrid Social Network!">>
    /\ log_by[2].by = "ui"
    /\ log_by[3].by = "Bob"

\* C19 as stated: once the stop flag is set, a listener that is at its while
\* test ends there (no new subscription); when its pending read returns an
\* event, ends or raises an error it goes to the while test without applying
\* anything and without waiting; when its pending backoff is over it goes to
\* the while test; setting the flag moves no listener; and a listener that
\* has stopped stays stopped.
C19_StopsWhenReadReturns ==
    [][\A c \in Names :
          /\ stop_event =>
                /\ (pc[c] = "loop" /\ pc'[c] # "loop") => pc'[c] = "done"
                /\ (pc[c] = "read" /\ pc'[c] # "read") => pc'[c] \in {"item", "loop"}
                /\ (pc[c] = "item" /\ pc'[c] # "item") =>
                      (pc'[c] = "loop" /\ chat_log' = chat_log /\ bot_status' = bot_status)
                /\ (pc[c] = "sleep" /\ pc'[c] # "sleep") =>
                      (timer[c] = 0 /\ pc'[c] = "loop")
          /\ stop_event' # stop_event => (pc' = pc /\ item' = item /\ timer' = timer)
          /\ pc[c] = "done" => pc'[c] = "done"
      ]_vars

\* C19, amended: as above, except that a pending read that raises an error
\* is followed by a full backoff, and the listener stops when that backoff
\* is over.
C19_StopsAtBoundary ==
    [][\A c \in Names :
          /\ stop_event =>
                /\ (pc[c] = "loop" /\ pc'[c] # "loop") => pc'[c] = "done"
                /\ (pc[c] = "read" /\ pc'[c] # "read") =>
                      \/ pc'[c] \in {"item", "loop"}
                      \/ pc'[c] = "sleep" /\ timer'[c] = 5
                /\ (pc[c] = "item" /\ pc'[c] # "item") =>
                      (pc'[c] = "loop" /\ chat_log' = chat_log /\ bot_status' = bot_status)
                /\ (pc[c] = "sleep" /\ pc'[c] # "sleep") =>
                      (timer[c] = 0 /\ pc'[c] = "loop")
          /\ stop_event' # stop_event => (pc' = pc /\ item' = item /\ timer' = timer)
          /\ pc[c] = "done" => pc'[c] = "done"
      ]_vars

\* with the flag set, Alice's listener has stopped in the very moment its
\* read returned, while Bob's is still in a backoff
C19_Witness ==
    /\ stop_event
    /\ pc["Alice"] = "done"
    /\ waited["Alice"] = 0
    /\ pc["Bob"] = "sleep"
    /\ timer["Bob"] > 0

\* C20: a listener applies an event only after acquiring the lock, releases
\* the lock in the step that ends the application, and is never at its
\* refresh call while holding the lock; a listener that has changed the chat
\* log or the status map goes to the refresh call, and it starts a read only
\* from the refresh call or from a new subscription.
C20_RefreshAfterRelease ==
    [][\A c \in Names :
          /\ pc[c] = "rerun" => lock # c
          /\ pc'[c] = "rerun" => lock' # c
          /\ (pc'[c] = "crit" /\ pc[c] # "crit") => (pc[c] = "lock" /\ lock' = c)
          /\ Applies(c) =>
                /\ lock = c /\ lock' = "free"
                /\ (chat_log' # chat_log \/ bot_status' # bot_status) => pc'[c] = "rerun"
          /\ (pc'[c] = "rerun" /\ pc[c] # "rerun") => Applies(c)
          /\ (pc'[c] = "read" /\ pc[c] # "read") => pc[c] \in {"connect", "rerun"}
          /\ (pc[c] = "rerun" /\ pc'[c] # "rerun") => pc'[c] = "read"
      ]_vars

\* Alice's listener is at its refresh call after appending an entry, and the
\* lock is already held by Bob's listener
C20_Witness ==
    /\ pc["Alice"] = "rerun"
    /\ log_by[Len(log_by)].by = "Alice"
    /\ lock = "Bob"
    /\ pc["Bob"] = "crit"

\* C21: a listener is inside the body of "with self.lock" exactly when it
\* holds the lock, so at most one listener is inside at a time and none
\* holds the lock while it reads, sleeps or subscribes; the step that leaves
\* the body frees the lock, also when the application raised; and a listener
\* waiting for the lock gets it (as far as the explored log length lets the
\* holder's append run).
C21_MutexNoDeadlock ==
    /\ [](/\ lock \in {"free", "Alice", "Bob"}
          /\ \A c \in Names : (pc[c] = "crit") <=> (lock = c)
          /\ \A c, d \in Names : (pc[c] = "crit" /\ pc[d] = "crit") => c = d)
    /\ [][\A c \in Names : (pc[c] = "crit" /\ pc'[c] # "crit") => lock' = "free"]_vars
    /\ \A c \in Names :
          (pc[c] = "lock") ~> (pc[c] = "crit" \/ Len(chat_log) = MaxLog)

\* Alice's listener was ended by an event whose application raised, and
\* Bob's listener, which was waiting, is now inside with the lock
C21_Witness ==
    /\ pc["Alice"] = "dead"
    /\ pc["Bob"] = "crit"
    /\ lock = "Bob"
    /\ Len(chat_log) < MaxLog

\* C22 as stated: once a bot's status is Banned it stays Banned, and from
\* then on the scheduler starts no dispatch for that bot and its message
\* counter does not change.
C22_BannedStopsCounter ==
    [][\A X \in Names :
          bot_status[X] = "Banned" =>
              /\ bot_status'[X] = "Banned"
              /\ attempts'[X] = attempts[X]
              /\ message_count'[X] = message_count[X]
      ]_vars

\* C22, amended: once a bot's status is Banned it stays Banned; every turn
\* of that bot whose status test is made from then on is skipped; and its
\* counter changes only by the one dispatch of a turn whose status test was
\* made before the ban was applied.
C22_BannedAbsorbing ==
    [][\A X \in Names :
          bot_status[X] = "Banned" =>
              LET acting == IF turn % 2 = 0 THEN "Alice" ELSE "Bob" IN
                 /\ bot_status'[X] = "Banned"
                 /\ (sched_pc = "loop" /\ sched_pc' # "loop" /\ ~stop_event /\ acting = X) =>
                       /\ sched_pc' = "sleep"
                       /\ turn' = turn + 1
                       /\ attempts' = attempts
                       /\ message_count' = message_count
                 /\ (attempts'[X] # attempts[X] \/ message_count'[X] # message_count[X]) =>
                       /\ sched_pc = "action"
                       /\ acting = X
                       /\ attempts'[X] = attempts[X] + 1
                       /\ message_count'[X] \in {message_count[X], message_count[X] + 1}
                       /\ sched_pc' \in {"sleep", "dead"}
      ]_vars

\* Bob was banned before the status test of his first turn: the turn was
\* skipped, nothing was dispatched for him, and a later press of the Ban
\* button left his status as it was
C22_Witness ==
    /\ bot_status["Bob"] = "Banned"
    /\ turn = 2
    /\ attempts["Bob"] = 0
    /\ message_count["Bob"] = 0
    /\ chat_log[Len(chat_log)] = <<"[ADMIN]: Banning ", "Bob", "...">>

=============================================================================
